---- MODULE Spec2Model ----
(***************************************************************************)
(* LocalPlate: the Home component (page state, effects and handlers) over  *)
(* the local log store (lib/db), the utilities (lib/utils) and the food    *)
(* catalogue (data/foods).                                                 *)
(*                                                                         *)
(* Numbers are fixed point, in hundredths: 250 kcal is 25000, 2.5 g is 250,*)
(* a quantity of 0.25 is 25.  A JavaScript number is a record [nan, v].    *)
(* An instant is a whole number of clock ticks in UTC; a local day is      *)
(* DayLen ticks long and the local zone is TzOffset ticks ahead of UTC.    *)
(* An asynchronous storage call is issued by a handler step and completes  *)
(* in a later step, which applies its effect on the store and runs the     *)
(* continuation of the handler up to its next await.                       *)
(***************************************************************************)
EXTENDS Integers, Sequences, FiniteSets, TLC

VARIABLES selectedDateKey, logs, loading, custom, quantities,
          store, tasks, nextId, lastError, putHist, delCount

vars == <<selectedDateKey, logs, loading, custom, quantities,
          store, tasks, nextId, lastError, putHist, delCount>>

(* ------------------------------ bounds --------------------------------- *)
MaxDay == 2
MaxTod == 1
TzOffset == 1
MaxEntries == 2
MaxTasks == 2
FormMaxEntries == 1
FormMaxTasks == 1

DayLen == MaxTod + 1
DateKeys == 1..MaxDay
TimesOfDay == 0..MaxTod

(* --------------------------- JavaScript numbers ------------------------ *)
Num(v) == [nan |-> FALSE, v |-> v]
NaN == [nan |-> TRUE, v |-> 0]

\* Number(text) for the texts the inputs are given
NumberOf(s) ==
  CASE s = "" -> Num(0)
    [] s = "0" -> Num(0)
    [] s = "0.25" -> Num(25)
    [] s = "1" -> Num(100)
    [] s = "2" -> Num(200)
    [] s = "2.5" -> Num(250)
    [] s = "12" -> Num(1200)
    [] s = "-5" -> Num(-500)
    [] OTHER -> NaN

\* x || d : a falsy number (NaN, 0) yields d
OrElse(x, d) == IF x.nan \/ x.v = 0 THEN d ELSE x.v

\* s || d on strings
StrOrElse(s, d) == IF s = "" THEN d ELSE s

\* v * quantity / defaultQuantity rounded half up to a multiple of unit:
\* Math.round (unit 100) and Number(x.toFixed(1)) (unit 10) on values >= 0
RoundScaled(v, q, d, unit) == unit * ((2 * v * q + unit * d) \div (2 * unit * d))

(* ------------------------------ catalogue ------------------------------ *)
FoodIds == {"thali", "idli"}

FOODS ==
  [f \in FoodIds |->
     IF f = "thali"
     THEN [id |-> "thali", name |-> "Veg Thali", description |-> "Rice plate", calories |-> 25000,
           protein |-> 800, carbs |-> 4000, fats |-> 600,
           defaultQuantity |-> 100, unit |-> "plate"]
     ELSE [id |-> "idli", name |-> "Idli", description |-> "Steamed rice cakes", calories |-> 10500,
           protein |-> 250, carbs |-> 2150, fats |-> 50,
           defaultQuantity |-> 200, unit |-> "piece"]]

(* ------------------------------ date codec ----------------------------- *)
\* new Date(`${key}T${HH:MM:SS}`).toISOString(): local wall clock to UTC
LocalToInstant(key, tod) == key * DayLen + tod - TzOffset
toStartOfDay(key) == LocalToInstant(key, 0)
toEndOfDay(key) == LocalToInstant(key + 1, 0)
formatDateKey(instant) == (instant + TzOffset) \div DayLen

(* ------------------------------ log store ------------------------------ *)
NotFound == "NotFound"
Ids(entries) == {e.id : e \in entries}
\* faulty variant: the collection keyed by createdAt instead of id
putLog_ByCreatedAt(db, entry) ==
  {e \in db : e.createdAt # entry.createdAt} \cup {entry}

putLog(db, entry) == {e \in db : e.id # entry.id} \cup {entry}
deleteLog(db, id) == {e \in db : e.id # id}
getLog(db, id) ==
  IF id \in Ids(db) THEN CHOOSE e \in db : e.id = id ELSE NotFound

\* the order of the createdAt index: createdAt, then the primary key
Before(a, b) ==
  \/ a.createdAt < b.createdAt
  \/ a.createdAt = b.createdAt /\ a.id[2] < b.id[2]
  \/ a.createdAt = b.createdAt /\ a.id[2] = b.id[2] /\ a.id[1] = "custom" /\ b.id[1] = "food"

RECURSIVE SortByCreatedAt(_)
SortByCreatedAt(S) ==
  IF S = {} THEN <<>>
  ELSE LET m == CHOOSE x \in S : \A y \in S \ {x} : Before(x, y)
       IN <<m>> \o SortByCreatedAt(S \ {m})

InDay(e, key) == toStartOfDay(key) <= e.createdAt /\ e.createdAt < toEndOfDay(key)

\* faulty variant: the day's records in primary-key order, not through the createdAt index
RECURSIVE SortByKey(_)
SortByKey(S) ==
  IF S = {} THEN <<>>
  ELSE LET m == CHOOSE x \in S : \A y \in S \ {x} : x.id[2] <= y.id[2]
       IN <<m>> \o SortByKey(S \ {m})

listLogsByDate_KeyOrder(db, key) == SortByKey({e \in db : InDay(e, key)})

listLogsByDate(db, key) == SortByCreatedAt({e \in db : InDay(e, key)})

(* ------------------------------ utilities ------------------------------ *)
uid(prefix, n) == <<prefix, n>>

ZeroTotals == [calories |-> 0, protein |-> 0, carbs |-> 0, fats |-> 0]

\* faulty variant: fats assigned instead of accumulated
RECURSIVE sumMacros_LastFats(_)
sumMacros_LastFats(entries) ==
  IF entries = <<>> THEN [calories |-> 0, protein |-> 0, carbs |-> 0, fats |-> 0]
  ELSE LET acc == sumMacros_LastFats(SubSeq(entries, 1, Len(entries) - 1))
           e == entries[Len(entries)]
       IN [calories |-> acc.calories + e.calories,
           protein |-> acc.protein + e.protein,
           carbs |-> acc.carbs + e.carbs,
           fats |-> e.fats]

RECURSIVE sumMacros(_)
sumMacros(entries) ==
  IF entries = <<>> THEN ZeroTotals
  ELSE LET acc == sumMacros(SubSeq(entries, 1, Len(entries) - 1))
           e == entries[Len(entries)]
       IN [calories |-> acc.calories + e.calories,
           protein |-> acc.protein + e.protein,
           carbs |-> acc.carbs + e.carbs,
           fats |-> acc.fats + e.fats]

(* ------------------------------ page state ----------------------------- *)
Undefined == "undefined"
Prefixes == {"food", "custom"}
AllIds == {uid(p, n) : p \in Prefixes, n \in 1..(MaxEntries + 1)}

initialCustom ==
  [name |-> "", calories |-> "", protein |-> "", carbs |-> "", fats |-> "",
   quantity |-> "1", unit |-> "serving", notes |-> ""]

NumberFields == {"quantity", "calories", "protein", "carbs", "fats"}
TextFields == {"name", "unit", "notes"}

\* what the user may type into a field
TypedTexts(field) ==
  CASE field = "name" -> {"Khichdi"}
    [] field = "calories" -> {"abc", "12", "-5"}
    [] field = "quantity" -> {"abc"}
    [] field = "unit" -> {""}
    [] field = "notes" -> {"ghee"}
    [] OTHER -> {"-5"}

\* event.target.value of an <input type="number">: text that is not a number reads ""
InputValue(field, text) ==
  IF field \in NumberFields /\ NumberOf(text).nan THEN "" ELSE text

\* constraint validation of one <input type="number" min step>
InRange(s, min, step) ==
  s = "" \/ (NumberOf(s).v >= min /\ (NumberOf(s).v - min) % step = 0)

\* faulty variant: the inputs without their min attributes
FormValid_NoMin(c) == c.name # ""

\* the submit event of the custom form fires only when the form validates
FormValid(c) ==
  /\ c.name # ""
  /\ InRange(c.quantity, 10, 10)
  /\ InRange(c.calories, 0, 100)
  /\ InRange(c.protein, 0, 10)
  /\ InRange(c.carbs, 0, 10)
  /\ InRange(c.fats, 0, 10)

\* values the quantity input hands to handleQuantityChange
QuantityInputs == {NaN, Num(-100), Num(100), Num(200)}

ClampQuantity(nextValue) ==
  LET v == IF nextValue.nan THEN 25 ELSE nextValue.v
  IN IF v > 25 THEN v ELSE 25

\* faulty variant: scaled by the quantity alone, not by quantity / defaultQuantity
FoodEntry_Unscaled(food, quantity, key, tod, n) ==
  [id |-> uid("food", n),
   name |-> food.name,
   foodId |-> food.id,
   calories |-> RoundScaled(food.calories, quantity, 100, 100),
   protein |-> RoundScaled(food.protein, quantity, 100, 10),
   carbs |-> RoundScaled(food.carbs, quantity, 100, 10),
   fats |-> RoundScaled(food.fats, quantity, 100, 10),
   quantity |-> quantity,
   unit |-> food.unit,
   createdAt |-> LocalToInstant(key, tod),
   notes |-> food.description]

\* faulty variant: the id made of the prefix and the second of creation alone
FoodEntry_TimestampId(food, quantity, key, tod, n) ==
  [id |-> uid("food", tod + 1),
   name |-> food.name,
   foodId |-> food.id,
   calories |-> RoundScaled(food.calories, quantity, food.defaultQuantity, 100),
   protein |-> RoundScaled(food.protein, quantity, food.defaultQuantity, 10),
   carbs |-> RoundScaled(food.carbs, quantity, food.defaultQuantity, 10),
   fats |-> RoundScaled(food.fats, quantity, food.defaultQuantity, 10),
   quantity |-> quantity,
   unit |-> food.unit,
   createdAt |-> LocalToInstant(key, tod),
   notes |-> food.description]

FoodEntry(food, quantity, key, tod, n) ==
  [id |-> uid("food", n),
   name |-> food.name,
   foodId |-> food.id,
   calories |-> RoundScaled(food.calories, quantity, food.defaultQuantity, 100),
   protein |-> RoundScaled(food.protein, quantity, food.defaultQuantity, 10),
   carbs |-> RoundScaled(food.carbs, quantity, food.defaultQuantity, 10),
   fats |-> RoundScaled(food.fats, quantity, food.defaultQuantity, 10),
   quantity |-> quantity,
   unit |-> food.unit,
   createdAt |-> LocalToInstant(key, tod),
   notes |-> food.description]

\* faulty variant: quantity defaulted like the other numeric fields
CustomEntry_ZeroQuantity(c, key, tod, n) ==
  [id |-> uid("custom", n),
   name |-> StrOrElse(c.name, "Untitled Meal"),
   foodId |-> Undefined,
   calories |-> OrElse(NumberOf(c.calories), 0),
   protein |-> OrElse(NumberOf(c.protein), 0),
   carbs |-> OrElse(NumberOf(c.carbs), 0),
   fats |-> OrElse(NumberOf(c.fats), 0),
   quantity |-> OrElse(NumberOf(c.quantity), 0),
   unit |-> StrOrElse(c.unit, "serving"),
   createdAt |-> LocalToInstant(key, tod),
   notes |-> StrOrElse(c.notes, Undefined)]

CustomEntry(c, key, tod, n) ==
  [id |-> uid("custom", n),
   name |-> StrOrElse(c.name, "Untitled Meal"),
   foodId |-> Undefined,
   calories |-> OrElse(NumberOf(c.calories), 0),
   protein |-> OrElse(NumberOf(c.protein), 0),
   carbs |-> OrElse(NumberOf(c.carbs), 0),
   fats |-> OrElse(NumberOf(c.fats), 0),
   quantity |-> OrElse(NumberOf(c.quantity), 100),
   unit |-> StrOrElse(c.unit, "serving"),
   createdAt |-> LocalToInstant(key, tod),
   notes |-> StrOrElse(c.notes, Undefined)]

NoEntry == CustomEntry(initialCustom, 0, 0, 0)
NoError == [error |-> "none", via |-> "none"]
Unhandled(e) == [error |-> e, via |-> "unhandledrejection"]

Task(kind, pc, key, entry, id) ==
  [kind |-> kind, pc |-> pc, key |-> key, entry |-> entry, id |-> id]

Remove(s, i) == SubSeq(s, 1, i - 1) \o SubSeq(s, i + 1, Len(s))

Filter(s, id) == SelectSeq(s, LAMBDA item : item.id # id)

SeqIds(s) == {s[i].id : i \in DOMAIN s}

(* -------------------------------- Init --------------------------------- *)
\* the mounted component: today's key selected, the first load issued
Init ==
  /\ selectedDateKey \in {formatDateKey(t) : t \in toStartOfDay(1)..(toEndOfDay(MaxDay) - 1)}
  /\ logs = <<>>
  /\ loading = TRUE
  /\ custom = initialCustom
  /\ quantities = [f \in FoodIds |-> FOODS[f].defaultQuantity]
  /\ store = {}
  /\ tasks = <<Task("load", "listLogsByDate", selectedDateKey, NoEntry, NoEntry.id)>>
  /\ nextId = 1
  /\ lastError = NoError
  /\ putHist = {}
  /\ delCount = [id \in AllIds |-> 0]

(* ------------------------------- actions ------------------------------- *)
\* the date input changes: setSelectedDateKey, then the effect runs load()
SetSelectedDateKey(key) ==
  /\ key # selectedDateKey
  /\ Len(tasks) < MaxTasks
  /\ selectedDateKey' = key
  /\ loading' = TRUE
  /\ tasks' = Append(tasks, Task("load", "listLogsByDate", key, NoEntry, NoEntry.id))
  /\ UNCHANGED <<logs, custom, quantities, store, nextId, lastError, putHist, delCount>>

handleQuantityChange(foodId, nextValue) ==
  /\ quantities' = [quantities EXCEPT ![foodId] = ClampQuantity(nextValue)]
  /\ UNCHANGED <<selectedDateKey, logs, loading, custom, store, tasks, nextId, lastError, putHist, delCount>>

SetCustom(field, text) ==
  /\ custom' = [custom EXCEPT ![field] = InputValue(field, text)]
  /\ UNCHANGED <<selectedDateKey, logs, loading, quantities, store, tasks, nextId, lastError, putHist, delCount>>

\* handleAddFood up to its first await
handleAddFood(foodId, tod) ==
  /\ Len(tasks) < MaxTasks
  /\ nextId <= MaxEntries
  /\ LET entry == FoodEntry(FOODS[foodId], quantities[foodId], selectedDateKey, tod, nextId)
     IN tasks' = Append(tasks, Task("addFood", "putLog", selectedDateKey, entry, entry.id))
  /\ nextId' = nextId + 1
  /\ UNCHANGED <<selectedDateKey, logs, loading, custom, quantities, store, lastError, putHist, delCount>>

\* handleCustomSubmit up to its first await
handleCustomSubmit(tod) ==
  /\ FormValid(custom)
  /\ Len(tasks) < MaxTasks
  /\ nextId <= MaxEntries
  /\ LET entry == CustomEntry(custom, selectedDateKey, tod, nextId)
     IN tasks' = Append(tasks, Task("custom", "putLog", selectedDateKey, entry, entry.id))
  /\ nextId' = nextId + 1
  /\ UNCHANGED <<selectedDateKey, logs, loading, custom, quantities, store, lastError, putHist, delCount>>

\* handleDelete up to its await; the Delete buttons are those of the displayed list
handleDelete(id) ==
  /\ ~loading
  /\ id \in SeqIds(logs)
  /\ Len(tasks) < MaxTasks
  /\ tasks' = Append(tasks, Task("delete", "deleteLog", selectedDateKey, NoEntry, id))
  /\ UNCHANGED <<selectedDateKey, logs, loading, custom, quantities, store, nextId, lastError, putHist, delCount>>

\* faulty variant: the entry shown before the put is awaited, never taken back
PutDone_Optimistic(i, ok) ==
  /\ i \in DOMAIN tasks
  /\ tasks[i].pc = "putLog"
  /\ IF ok
     THEN /\ store' = putLog(store, tasks[i].entry)
          /\ putHist' = putHist \cup {tasks[i].entry}
          /\ tasks' = [tasks EXCEPT ![i].pc = "listLogsByDate"]
          /\ UNCHANGED lastError
     ELSE /\ tasks' = Remove(tasks, i)
          /\ lastError' = Unhandled("StorageUnavailable")
          /\ UNCHANGED <<store, putHist>>
  /\ logs' = Append(logs, tasks[i].entry)
  /\ UNCHANGED <<selectedDateKey, loading, custom, quantities, nextId, delCount>>

\* putLog completes; on success the handler goes on to listLogsByDate
PutDone(i, ok) ==
  /\ i \in DOMAIN tasks
  /\ tasks[i].pc = "putLog"
  /\ IF ok
     THEN /\ store' = putLog(store, tasks[i].entry)
          /\ putHist' = putHist \cup {tasks[i].entry}
          /\ tasks' = [tasks EXCEPT ![i].pc = "listLogsByDate"]
          /\ UNCHANGED lastError
     ELSE /\ tasks' = Remove(tasks, i)
          /\ lastError' = Unhandled("StorageUnavailable")
          /\ UNCHANGED <<store, putHist>>
  /\ UNCHANGED <<selectedDateKey, logs, loading, custom, quantities, nextId, delCount>>

\* listLogsByDate completes: setLogs(next), and what follows it in the caller
ListDone(i) ==
  /\ i \in DOMAIN tasks
  /\ tasks[i].pc = "listLogsByDate"
  /\ tasks' = Remove(tasks, i)
  /\ logs' = listLogsByDate(store, tasks[i].key)
  /\ loading' = IF tasks[i].kind = "load" THEN FALSE ELSE loading
  /\ custom' = IF tasks[i].kind = "custom" THEN initialCustom ELSE custom
  /\ UNCHANGED <<selectedDateKey, quantities, store, nextId, lastError, putHist, delCount>>

\* faulty variant: the entry taken off the display only
DeleteDone_DisplayOnly(i) ==
  /\ i \in DOMAIN tasks
  /\ tasks[i].pc = "deleteLog"
  /\ logs' = Filter(logs, tasks[i].id)
  /\ delCount' = [delCount EXCEPT ![tasks[i].id] = @ + 1]
  /\ tasks' = Remove(tasks, i)
  /\ UNCHANGED <<selectedDateKey, loading, custom, quantities, store, nextId, lastError, putHist>>

\* faulty variant: the displayed list left as it was
DeleteDone_NoFilter(i) ==
  /\ i \in DOMAIN tasks
  /\ tasks[i].pc = "deleteLog"
  /\ store' = deleteLog(store, tasks[i].id)
  /\ delCount' = [delCount EXCEPT ![tasks[i].id] = @ + 1]
  /\ tasks' = Remove(tasks, i)
  /\ UNCHANGED <<selectedDateKey, logs, loading, custom, quantities, nextId, lastError, putHist>>

\* faulty variant: deleting an id that is not stored is an error
DeleteDone_Strict(i) ==
  /\ i \in DOMAIN tasks
  /\ tasks[i].pc = "deleteLog"
  /\ store' = deleteLog(store, tasks[i].id)
  /\ logs' = Filter(logs, tasks[i].id)
  /\ delCount' = [delCount EXCEPT ![tasks[i].id] = @ + 1]
  /\ tasks' = Remove(tasks, i)
  /\ lastError' = IF tasks[i].id \in Ids(store) THEN lastError ELSE Unhandled("NotFound")
  /\ UNCHANGED <<selectedDateKey, loading, custom, quantities, nextId, putHist>>

\* deleteLog completes: setLogs(prev => prev.filter(...))
DeleteDone(i) ==
  /\ i \in DOMAIN tasks
  /\ tasks[i].pc = "deleteLog"
  /\ store' = deleteLog(store, tasks[i].id)
  /\ logs' = Filter(logs, tasks[i].id)
  /\ delCount' = [delCount EXCEPT ![tasks[i].id] = @ + 1]
  /\ tasks' = Remove(tasks, i)
  /\ UNCHANGED <<selectedDateKey, loading, custom, quantities, nextId, lastError, putHist>>

\* the page with the custom form given a name only and the quantities left alone
Next ==
  \/ \E key \in DateKeys : SetSelectedDateKey(key)
  \/ \E text \in TypedTexts("name") : SetCustom("name", text)
  \/ \E f \in FoodIds, tod \in TimesOfDay : handleAddFood(f, tod)
  \/ \E tod \in TimesOfDay : handleCustomSubmit(tod)
  \/ \E id \in AllIds : handleDelete(id)
  \/ \E i \in 1..MaxTasks, ok \in BOOLEAN : PutDone(i, ok)
  \/ \E i \in 1..MaxTasks : ListDone(i)
  \/ \E i \in 1..MaxTasks : DeleteDone(i)

Spec == Init /\ [][Next]_vars

\* the two add paths with every input of the forms, one handler at a time
FormIdle == Len(tasks) < FormMaxTasks /\ nextId <= FormMaxEntries

NextForm ==
  \/ \E f \in FoodIds, v \in QuantityInputs : handleQuantityChange(f, v)
  \/ \E field \in NumberFields \cup TextFields : \E text \in TypedTexts(field) : SetCustom(field, text)
  \/ \E f \in FoodIds, tod \in TimesOfDay : FormIdle /\ handleAddFood(f, tod)
  \/ \E tod \in TimesOfDay : FormIdle /\ handleCustomSubmit(tod)
  \/ \E i \in 1..MaxTasks, ok \in BOOLEAN : PutDone(i, ok)
  \/ \E i \in 1..MaxTasks : ListDone(i)

SpecForm == Init /\ [][NextForm]_vars

(* ------------------------------ day view ------------------------------- *)
\* what the page shows for a day: the loaded list and the totals over it
dayView(key) ==
  LET entries == listLogsByDate(store, key)
  IN [entries |-> entries, totals |-> sumMacros(entries)]

(* ---------------------- vocabulary of the properties ------------------- *)
SeqToSet(s) == {s[i] : i \in DOMAIN s}

RECURSIVE SumField(_, _)
SumField(S, field) ==
  IF S = {} THEN 0
  ELSE LET x == CHOOSE y \in S : TRUE IN x[field] + SumField(S \ {x}, field)

\* the entries put on day key and not deleted since
Live(key) == {e \in putHist : formatDateKey(e.createdAt) = key /\ delCount[e.id] = 0}

Deleted == {e \in putHist : delCount[e.id] > 0}

Ascending(s) == \A i, j \in DOMAIN s : i < j => s[i].createdAt <= s[j].createdAt

(* ------------------------------- C1 ------------------------------------ *)
\* C1: read-after-write consistency: for every day key, dayView returns
\* exactly the entries that were put with a createdAt on that day and not
\* deleted since, each once, and totals that are the sums over those entries.
C1_ReadAfterWrite ==
  \A key \in DateKeys :
    LET view == dayView(key)
    IN /\ SeqToSet(view.entries) = Live(key)
       /\ Len(view.entries) = Cardinality(Live(key))
       /\ view.totals = [calories |-> SumField(Live(key), "calories"),
                         protein |-> SumField(Live(key), "protein"),
                         carbs |-> SumField(Live(key), "carbs"),
                         fats |-> SumField(Live(key), "fats")]

\* a day that holds an entry after another entry was put and deleted
C1_Witness ==
  /\ Deleted # {}
  /\ \E key \in DateKeys : Live(key) # {} /\ dayView(key).totals.calories > 0

(* ------------------------------- C2 ------------------------------------ *)
\* C2: once deleteLog(e.id) has completed, get(e.id) is NotFound and e.id
\* appears neither in listLogsByDate of e's day nor in the displayed list.
C2_DeletedIsGone ==
  \A e \in Deleted :
    /\ getLog(store, e.id) = NotFound
    /\ e.id \notin SeqIds(listLogsByDate(store, formatDateKey(e.createdAt)))
    /\ e.id \notin SeqIds(logs)

\* an entry was deleted while another one stays stored and displayed
C2_Witness == Deleted # {} /\ store # {} /\ logs # <<>>

(* ------------------------------- C3 ------------------------------------ *)
\* C3: delete is idempotent: a deleteLog that completes for an id that is
\* not in the store raises no error and leaves the store as it was.
C3_DeleteIdempotent ==
  [][\A i \in 1..MaxTasks :
       (DeleteDone(i) /\ tasks[i].id \notin Ids(store))
         => (store' = store /\ lastError' = lastError)]_vars

\* the same entry has been deleted twice
C3_Witness == \E id \in AllIds : delCount[id] >= 2

(* ------------------------------- C4 ------------------------------------ *)
\* C4: for every day key, listLogsByDate returns exactly the stored entries
\* whose createdAt lies in [toStartOfDay(key), toEndOfDay(key)), each once,
\* none of another day, in ascending createdAt order.
C4_ListByDateKey ==
  \A key \in DateKeys :
    LET l == listLogsByDate(store, key)
        inRange == {e \in store : /\ toStartOfDay(key) <= e.createdAt
                                  /\ e.createdAt < toEndOfDay(key)}
    IN /\ SeqToSet(l) = inRange
       /\ Len(l) = Cardinality(inRange)
       /\ \A e \in SeqToSet(l) : formatDateKey(e.createdAt) = key
       /\ Ascending(l)

\* two entries of one day, the one inserted later created earlier in the day
C4_Witness ==
  \E a, b \in store :
    /\ a.id[2] < b.id[2]
    /\ b.createdAt < a.createdAt
    /\ formatDateKey(a.createdAt) = formatDateKey(b.createdAt)

(* ------------------------------- C5 ------------------------------------ *)
\* C5: every entry whose put has completed, and which was not deleted, is
\* read back by get(e.id) equal to the entry that was put.
C5_GetAfterPut ==
  \A e \in putHist :
    delCount[e.id] = 0 => (e.id \in Ids(store) /\ getLog(store, e.id) = e)

\* two entries put at the same instant, both read back
C5_Witness ==
  \E a, b \in putHist :
    a.id # b.id /\ a.createdAt = b.createdAt /\ delCount[a.id] = 0 /\ delCount[b.id] = 0

PendingEntries ==
  {tasks[i].entry : i \in {j \in DOMAIN tasks : tasks[j].pc = "putLog"}}

\* C7: scaling law: an entry added from the catalogue with the item's
\* default quantity has the item's calories, protein, carbs and fats.
C7_ScalingLaw ==
  \A e \in store \cup PendingEntries :
    (e.foodId \in FoodIds /\ e.quantity = FOODS[e.foodId].defaultQuantity)
      => /\ e.calories = FOODS[e.foodId].calories
         /\ e.protein = FOODS[e.foodId].protein
         /\ e.carbs = FOODS[e.foodId].carbs
         /\ e.fats = FOODS[e.foodId].fats

\* an item whose default quantity is not 1 was added with its default quantity
C7_Witness ==
  \E e \in store :
    /\ e.foodId \in FoodIds
    /\ e.quantity = FOODS[e.foodId].defaultQuantity
    /\ e.quantity # 100

(* ------------------------------- C8 ------------------------------------ *)
SumLen == 3

Perms(n) == {p \in [1..n -> 1..n] : \A i, j \in 1..n : p[i] = p[j] => i = j}

Unparsable(s) == s = "" \/ NumberOf(s).nan

DefaultsApplied(c, e) ==
  /\ Unparsable(c.calories) => e.calories = 0
  /\ Unparsable(c.protein) => e.protein = 0
  /\ Unparsable(c.carbs) => e.carbs = 0
  /\ Unparsable(c.fats) => e.fats = 0
  /\ Unparsable(c.quantity) => e.quantity = 100
  /\ c.name = "" => e.name = "Untitled Meal"
  /\ c.unit = "" => e.unit = "serving"

\* C9: the entry handleCustomSubmit builds from the form has 0 for a blank or
\* unparsable calories, protein, carbs or fats field, 1 for an unparsable
\* quantity, the placeholder for a blank name and "serving" for a blank unit;
\* and every submission goes on to putLog with that entry.
C9_CustomDefaults ==
  /\ [](\A tod \in TimesOfDay :
          DefaultsApplied(custom, CustomEntry(custom, selectedDateKey, tod, nextId)))
  /\ [][\A tod \in TimesOfDay :
          handleCustomSubmit(tod)
            => /\ tasks'[Len(tasks')].pc = "putLog"
               /\ DefaultsApplied(custom, tasks'[Len(tasks')].entry)]_vars

\* a form with blank calories, quantity and unit was submitted
C9_Witness ==
  \E i \in DOMAIN tasks :
    /\ tasks[i].kind = "custom"
    /\ tasks[i].pc = "putLog"
    /\ custom.calories = "" /\ custom.quantity = "" /\ custom.unit = ""
    /\ tasks[i].entry.calories = 0
    /\ tasks[i].entry.quantity = 100
    /\ tasks[i].entry.unit = "serving"

(* ------------------------------- C10 ----------------------------------- *)
\* C10: when putLog fails with StorageUnavailable the handler rejects with
\* that error and nothing stored or displayed changes: the store, every
\* day's list and the displayed list are as before the failed call.
C10_FailedPutChangesNothing ==
  [][\A i \in 1..MaxTasks :
       PutDone(i, FALSE)
         => /\ lastError' = Unhandled("StorageUnavailable")
            /\ store' = store
            /\ logs' = logs
            /\ \A key \in DateKeys :
                 listLogsByDate(store', key) = listLogsByDate(store, key)]_vars

\* a put failed after an earlier entry was stored and displayed, with an
\* entry of another day in the store
C10_Witness ==
  /\ lastError = Unhandled("StorageUnavailable")
  /\ logs # <<>>
  /\ \E e \in store : formatDateKey(e.createdAt) # selectedDateKey
  /\ nextId - 1 > Cardinality(putHist) + Len(tasks)

(* ------------------------------- C11 ----------------------------------- *)
\* the add handlers that hold an entry: suspended at putLog or at the list after it
AddTasks == {i \in DOMAIN tasks : tasks[i].kind \in {"addFood", "custom"}}

\* C11: no two entries share an id: the entries put so far, and so the
\* stored ones, have pairwise different ids, the adds in progress hold
\* pairwise different ids, and an add waiting for its putLog holds an id that
\* no entry put before has, so that its put replaces nothing.
C11_UniqueIds ==
  /\ \A a, b \in putHist : a.id = b.id => a = b
  /\ \A a, b \in store : a.id = b.id => a = b
  /\ \A i, j \in AddTasks : tasks[i].id = tasks[j].id => i = j
  /\ \A i \in AddTasks :
       tasks[i].pc = "putLog" => tasks[i].id \notin Ids(putHist) \cup Ids(store)

\* two adds issued in the same second, both waiting for their putLog
C11_Witness ==
  \E i, j \in AddTasks :
    /\ i # j
    /\ tasks[i].pc = "putLog" /\ tasks[j].pc = "putLog"
    /\ tasks[i].entry.createdAt = tasks[j].entry.createdAt

(* ------------------------------- C12 ----------------------------------- *)
\* C12: storage operations of the page are never in flight at the same
\* time: at most one putLog, deleteLog or listLogsByDate is awaiting its
\* completion in any reachable state.
C12_OneOperationInFlight == Len(tasks) <= 1

(* ------------------------------- C13 ----------------------------------- *)
\* C13: once no storage call is pending, the displayed list is the store's
\* listLogsByDate for the currently selected date key.
C13_DisplayMatchesSelected ==
  tasks = <<>> => logs = listLogsByDate(store, selectedDateKey)

====
